---------------------------- MODULE Spec2Model ----------------------------
(***************************************************************************)
(* A model of the kylaris market-data fetcher (core/price.py) and of its   *)
(* indicator engine (core/indicators.py).                                  *)
(*                                                                         *)
(* A datetime is an integer number of microseconds since the epoch (the    *)
(* resolution of Python's datetime).  Binance times are integer            *)
(* milliseconds.  A float of the indicator engine is an exact rational     *)
(* <<numerator, denominator>>: rounding of IEEE doubles is not modelled.   *)
(***************************************************************************)
EXTENDS Integers, Sequences, FiniteSets, TLC

VARIABLES
    history,          \* upstream: the set of bar slots the exchange holds
    queue,            \* contexts of the fetch calls still to be made
    pc,               \* position of BinancePriceProvider.fetch
    context,          \* PriceProviderContext of the running call
    start_time,       \* fetch local, milliseconds
    end_time,         \* fetch local, milliseconds
    prices,           \* fetch local: the accumulated PriceRepresentable list
    next_start_time,  \* fetch local: the pagination cursor, milliseconds
    requests,         \* the HTTP requests the running call has issued
    results,          \* outcome of every finished fetch call
    values,           \* input series of the indicator engine (close prices)
    indicator         \* outcome of the last indicator call

vars == <<history, queue, pc, context, start_time, end_time, prices,
          next_start_time, requests, results, values, indicator>>

\* Optional[T]: None is the empty tuple, a value v is <<v>>.
None == <<>>

Some(v) == <<v>>

---------------------------------------------------------------------------
(* Bounds of the model *)

MaxMinute == 3
NumSlots == 3
DefaultPage == 2
MaxLimit == 2
MaxLen == 4
MaxPeriod == 3

ClosePrices == {10, 11, 12, 13}

(* Units *)
MsPerSecond == 1000
UsPerMs == 1000
MinuteMs == 60000

---------------------------------------------------------------------------
(* core/utilities.py *)

datatime_to_seconds(time) == time \div (UsPerMs * MsPerSecond)

datatime_to_milliseconds(time) == datatime_to_seconds(time) * MsPerSecond

milliseconds_to_datatime(milliseconds) == milliseconds * UsPerMs

---------------------------------------------------------------------------
(* The upstream: Binance klines of the '1m' interval.  Slot k is the bar   *)
(* [openTime, closeTime] = [k*60000, (k+1)*60000 - 1].                     *)

Kline(k) == [openTime |-> k * MinuteMs, closeTime |-> (k + 1) * MinuteMs - 1]

RECURSIVE Ascending(_, _)
Ascending(slots, k) ==
    IF k >= NumSlots THEN <<>>
    ELSE (IF k \in slots THEN <<Kline(k)>> ELSE <<>>) \o Ascending(slots, k + 1)

Take(seq, n) == SubSeq(seq, 1, IF n < Len(seq) THEN n ELSE Len(seq))

PageSize(limit) == IF limit = None THEN DefaultPage ELSE limit[1]

\* The klines the exchange serves for one request: those whose open time lies
\* in [startTime, endTime], ascending, at most a page of them.
Klines(parameters) ==
    Take(Ascending({k \in history :
                      /\ parameters.startTime <= Kline(k).openTime
                      /\ Kline(k).openTime <= parameters.endTime}, 0),
         PageSize(parameters.limit))

Reorderings(seq) ==
    {[i \in 1..Len(seq) |-> seq[f[i]]] :
        f \in {g \in [1..Len(seq) -> 1..Len(seq)] :
                 \A i, j \in 1..Len(seq) : i # j => g[i] # g[j]}}

---------------------------------------------------------------------------
(* BinancePriceProvider.fetch *)

\* The request window closed at end_time instead of end_time - 1.
ParametersEndInclusive ==
    [startTime |-> next_start_time, endTime |-> end_time,
     limit |-> context.limit]

Parameters ==
    [startTime |-> next_start_time, endTime |-> end_time - 1,
     limit |-> context.limit]

PriceOf(content) == [timestamp |-> milliseconds_to_datatime(content.openTime)]

\* The for loop over one page: append, and return as soon as the accumulated
\* count exceeds the limit.
RECURSIVE AppendLoop(_, _, _, _)
AppendLoop(acc, contents, i, limit) ==
    IF i > Len(contents) THEN [early |-> FALSE, prices |-> acc]
    ELSE LET appended == Append(acc, PriceOf(contents[i]))
         IN  IF limit # None /\ Len(appended) > limit[1]
             THEN [early |-> TRUE, prices |-> appended]
             ELSE AppendLoop(appended, contents, i + 1, limit)

RECURSIVE Insert(_, _)
Insert(sortedSeq, price) ==
    IF sortedSeq = <<>> THEN <<price>>
    ELSE IF sortedSeq[Len(sortedSeq)].timestamp <= price.timestamp
         THEN Append(sortedSeq, price)
         ELSE Append(Insert(SubSeq(sortedSeq, 1, Len(sortedSeq) - 1), price),
                     sortedSeq[Len(sortedSeq)])

\* sorted(prices, key=lambda price: price.timestamp): a stable sort.
RECURSIVE sorted(_)
sorted(seq) ==
    IF seq = <<>> THEN <<>>
    ELSE Insert(sorted(SubSeq(seq, 1, Len(seq) - 1)), seq[Len(seq)])

\* The cursor set to the last close time itself, without the + 1.
NextCursorAtClose(contents) == contents[Len(contents)].closeTime

NextCursor(contents) == contents[Len(contents)].closeTime + 1

LoopCondition == next_start_time <= end_time

\* The last request of the log, answered: what came back and its klines.
Logged(reply, contents) ==
    [requests EXCEPT ![Len(requests)] =
        [@ EXCEPT !.reply = reply, !.contents = contents]]

\* fetch ends: outcome is "returned" (with the series) or "raised".
Finish(outcome, series, log) ==
    /\ results' = Append(results, [context |-> context, outcome |-> outcome,
                                   series |-> series, requests |-> log])
    /\ pc' = "idle"
    /\ prices' = <<>>
    /\ requests' = <<>>
    /\ UNCHANGED <<history, queue, context, start_time, end_time,
                   next_start_time, values, indicator>>

\* Lines 172-194 on a parsed body `contents` (a list of klines).
Handle(contents, reply) ==
    IF contents = <<>>
    THEN Finish("returned", sorted(prices), Logged(reply, contents))
    ELSE LET loop == AppendLoop(prices, contents, 1, context.limit)
         IN  IF loop.early
             THEN Finish("returned", loop.prices, Logged(reply, contents))
             ELSE /\ prices' = loop.prices
                  /\ next_start_time' = NextCursor(contents)
                  /\ requests' = Logged(reply, contents)
                  /\ pc' = "loop"
                  /\ UNCHANGED <<history, queue, context, start_time, end_time,
                                 results, values, indicator>>

Call ==
    /\ pc = "idle"
    /\ queue # <<>>
    /\ context' = Head(queue)
    /\ queue' = Tail(queue)
    /\ start_time' = datatime_to_milliseconds(Head(queue).start_time)
    /\ end_time' = datatime_to_milliseconds(Head(queue).end_time)
    /\ prices' = <<>>
    /\ next_start_time' = datatime_to_milliseconds(Head(queue).start_time)
    /\ requests' = <<>>
    /\ pc' = "loop"
    /\ UNCHANGED <<history, results, values, indicator>>

SendRequest ==
    /\ pc = "loop"
    /\ LoopCondition
    /\ requests' = Append(requests, [parameters |-> Parameters,
                                     reply |-> "pending",
                                     contents |-> <<>>])
    /\ pc' = "await"
    /\ UNCHANGED <<history, queue, context, start_time, end_time, prices,
                   next_start_time, results, values, indicator>>

ReturnAfterLoop ==
    /\ pc = "loop"
    /\ ~LoopCondition
    /\ Finish("returned", sorted(prices), requests)

\* The exchange answers 200 with the klines of the requested window.
ReceivePage ==
    /\ pc = "await"
    /\ Handle(Klines(Parameters), "page")

\* The exchange answers 200 with the klines of the window in another order.
ReceiveDisordered ==
    /\ pc = "await"
    /\ \E contents \in Reorderings(Klines(Parameters)) \ {Klines(Parameters)} :
          Handle(contents, "disordered")

\* requests.get raises (connection error, timeout): nothing catches it.
RequestFails ==
    /\ pc = "await"
    /\ Finish("raised", <<>>, Logged("network_error", <<>>))

\* The exchange answers with a non-success status.  The status is never read;
\* what happens depends on the body: not JSON (json() raises), a JSON error
\* object (int(content[0]) raises), or an empty JSON value (the loop breaks).
ReceiveErrorStatus ==
    /\ pc = "await"
    /\ \E body \in {"not_json", "error_object", "empty"} :
          IF body = "empty"
          THEN Handle(<<>>, "http_error")
          ELSE Finish("raised", <<>>, Logged("http_error", <<>>))

---------------------------------------------------------------------------
(* Exact rational arithmetic, standing for Python's float arithmetic. *)

Abs(n) == IF n < 0 THEN -n ELSE n

RECURSIVE GCD(_, _)
GCD(a, b) == IF b = 0 THEN a ELSE GCD(b, a % b)

Rat(n, d) ==
    LET g == GCD(Abs(n), Abs(d))
        s == IF d < 0 THEN -1 ELSE 1
    IN  <<(s * n) \div g, (s * d) \div g>>

Num(n) == <<n, 1>>

RAdd(x, y) == Rat(x[1] * y[2] + y[1] * x[2], x[2] * y[2])

RSub(x, y) == Rat(x[1] * y[2] - y[1] * x[2], x[2] * y[2])

RMul(x, y) == Rat(x[1] * y[1], x[2] * y[2])

RDiv(x, y) == Rat(x[1] * y[2], x[2] * y[1])

RNeg(x) == <<-x[1], x[2]>>

RLeq(x, y) == x[1] * y[2] <= y[1] * x[2]

RMax(x, y) == IF RLeq(x, y) THEN y ELSE x

RECURSIVE sum(_)
sum(seq) == IF seq = <<>> THEN Num(0) ELSE RAdd(sum(Tail(seq)), Head(seq))

\* seq[a:b] for 0 <= a, 0 <= b
Slice(seq, a, b) == SubSeq(seq, a + 1, IF b < Len(seq) THEN b ELSE Len(seq))

\* [None] * n: empty when n <= 0
Nones(n) == [i \in 1..n |-> None]

\* zip(a, b) stops at the shorter one
ZipLen(a, b) == IF Len(a) < Len(b) THEN Len(a) ELSE Len(b)

Returned(result) == [outcome |-> "returned", result |-> result]

Raised(exception) == [outcome |-> exception, result |-> <<>>]

---------------------------------------------------------------------------
(* core/indicators.py *)

\* A wrong smoothing factor, 2/period.
AlphaOverPeriod(period) == RDiv(Num(2), Num(period))

Alpha(period) == RDiv(Num(2), RAdd(Num(period), Num(1)))

\* for price in values[period:]: the EMA recurrence, in sequence order
RECURSIVE EmaLoop(_, _, _, _)
EmaLoop(rest, previous_moving_average, alpha, series) ==
    IF rest = <<>> THEN series
    ELSE LET moving_average ==
                 RAdd(RMul(alpha, Head(rest)),
                      RMul(RSub(Num(1), alpha), previous_moving_average))
         IN  EmaLoop(Tail(rest), moving_average, alpha,
                     Append(series, Some(moving_average)))

exponential_moving_average(closes, period) ==
    IF period = 0 THEN Raised("ZeroDivisionError")
    ELSE LET seed == RDiv(sum(Slice(closes, 0, period)), Num(period))
         IN  Returned(EmaLoop(Slice(closes, period, Len(closes)), seed,
                              Alpha(period),
                              Append(Nones(period - 1), Some(seed))))

\* gains and losses, with the leading 0.0 of index 0
Gains(closes) ==
    [i \in 1..(IF Len(closes) = 0 THEN 1 ELSE Len(closes)) |->
        IF i = 1 THEN Num(0) ELSE RMax(RSub(closes[i], closes[i - 1]), Num(0))]

Losses(closes) ==
    [i \in 1..(IF Len(closes) = 0 THEN 1 ELSE Len(closes)) |->
        IF i = 1 THEN Num(0) ELSE RMax(RSub(closes[i - 1], closes[i]), Num(0))]

\* The no-loss case answered with 0 instead of 100.
RsiValueZeroWithoutLoss(average_gain, average_loss) ==
    IF average_loss = Num(0) THEN Num(0)
    ELSE RSub(Num(100),
              RDiv(Num(100), RAdd(Num(1), RDiv(average_gain, average_loss))))

RsiValue(average_gain, average_loss) ==
    IF average_loss = Num(0) THEN Num(100)
    ELSE RSub(Num(100),
              RDiv(Num(100), RAdd(Num(1), RDiv(average_gain, average_loss))))

Smooth(average, current, period) ==
    RDiv(RAdd(RMul(average, Num(period - 1)), current), Num(period))

\* for value in range(period + 1, len(values)); `value` is the 0-based index
RECURSIVE RsiLoop(_, _, _, _, _, _, _, _)
RsiLoop(value, length, gains, losses, average_gain, average_loss, period, series) ==
    IF value >= length THEN series
    ELSE LET gain == Smooth(average_gain, gains[value + 1], period)
             loss == Smooth(average_loss, losses[value + 1], period)
         IN  RsiLoop(value + 1, length, gains, losses, gain, loss, period,
                     Append(series, Some(RsiValue(gain, loss))))

relative_strength_index(closes, period) ==
    IF period = 0 THEN Raised("ZeroDivisionError")
    ELSE LET gains == Gains(closes)
             losses == Losses(closes)
             average_gain ==
                 RDiv(sum(Slice(gains, 1, period + 1)), Num(period))
             average_loss ==
                 RDiv(sum(Slice(losses, 1, period + 1)), Num(period))
         IN  Returned(RsiLoop(period + 1, Len(closes), gains, losses,
                              average_gain, average_loss, period,
                              Append(Nones(period),
                                     Some(RsiValue(average_gain,
                                                   average_loss)))))

\* None where either side is None, else the difference; as long as the
\* shorter of the two (zip)
Difference(a, b) ==
    [i \in 1..ZipLen(a, b) |->
        IF a[i] = None \/ b[i] = None THEN None
        ELSE Some(RSub(a[i][1], b[i][1]))]

\* [value for value in line if value is not None]
\* The undefined entries kept as 0.0 instead of being dropped.
RECURSIVE CompactZeroFilled(_)
CompactZeroFilled(line) ==
    IF line = <<>> THEN <<>>
    ELSE <<IF Head(line) = None THEN Num(0) ELSE Head(line)[1]>>
         \o CompactZeroFilled(Tail(line))

RECURSIVE Compact(_)
Compact(line) ==
    IF line = <<>> THEN <<>>
    ELSE (IF Head(line) = None THEN <<>> ELSE <<Head(line)[1]>>)
         \o Compact(Tail(line))

\* The signal EMA used without padding it back to the timeline.
AlignUnpadded(line, signal_values) == signal_values

\* [None] * (len(line) - len(signal_values)) + list(signal_values)
Align(line, signal_values) ==
    Nones(Len(line) - Len(signal_values)) \o signal_values

moving_average_convergence_divergence(closes, fast_period, slow_period, signal_period) ==
    LET moving_average_fast == exponential_moving_average(closes, fast_period)
        moving_average_slow == exponential_moving_average(closes, slow_period)
    IN  IF moving_average_fast.outcome # "returned"
        THEN moving_average_fast
        ELSE IF moving_average_slow.outcome # "returned"
        THEN moving_average_slow
        ELSE LET moving_average_line ==
                     Difference(moving_average_fast.result,
                                moving_average_slow.result)
                 signal_values ==
                     exponential_moving_average(Compact(moving_average_line),
                                                signal_period)
             IN  IF signal_values.outcome # "returned" THEN signal_values
                 ELSE LET signal_line ==
                              Align(moving_average_line, signal_values.result)
                      IN  Returned(<<moving_average_line, signal_line,
                                     Difference(moving_average_line,
                                                signal_line)>>)

NoIndicator ==
    [name |-> "none", arguments |-> <<>>, outcome |-> "none", result |-> <<>>]

\* One call of the engine on the series `values`.
Applied(name, arguments, outcome) ==
    /\ indicator' = [name |-> name, arguments |-> arguments,
                     outcome |-> outcome.outcome, result |-> outcome.result]
    /\ UNCHANGED <<history, queue, pc, context, start_time, end_time, prices,
                   next_start_time, requests, results, values>>

CallEMA(period) ==
    /\ indicator = NoIndicator
    /\ Applied("exponential_moving_average", <<period>>,
            exponential_moving_average(values, period))

CallRSI(period) ==
    /\ indicator = NoIndicator
    /\ Applied("relative_strength_index", <<period>>,
            relative_strength_index(values, period))

CallMACD(fast_period, slow_period, signal_period) ==
    /\ indicator = NoIndicator
    /\ Applied("moving_average_convergence_divergence",
            <<fast_period, slow_period, signal_period>>,
            moving_average_convergence_divergence(values, fast_period,
                                                  slow_period, signal_period))

---------------------------------------------------------------------------
Minutes == 0..MaxMinute

\* Datetimes a caller may pass: whole minutes, 30 s and 30.5 s past them.
DatetimesAt(offsets) ==
    {m * MinuteMs * UsPerMs + d * UsPerMs : m \in Minutes, d \in offsets}

Datetimes == DatetimesAt({0, 30000, 30500})

Limits == {None} \cup {Some(n) : n \in 1..MaxLimit}

Contexts ==
    [start_time : Datetimes, end_time : Datetimes, limit : Limits]

FetchInit(calls) ==
    /\ history \in SUBSET (0..(NumSlots - 1))
    /\ queue \in calls
    /\ pc = "idle"
    /\ context = [start_time |-> 0, end_time |-> 0, limit |-> None]
    /\ start_time = 0
    /\ end_time = 0
    /\ prices = <<>>
    /\ next_start_time = 0
    /\ requests = <<>>
    /\ results = <<>>
    /\ values = <<>>
    /\ indicator = NoIndicator

Init == FetchInit({<<c>> : c \in Contexts})

Next ==
    \/ Call
    \/ SendRequest
    \/ ReturnAfterLoop
    \/ ReceivePage
    \/ ReceiveDisordered
    \/ RequestFails
    \/ ReceiveErrorStatus

Spec == Init /\ [][Next]_vars

---------------------------------------------------------------------------
(* Two adjacent windows [t0,t1), [t1,t2) and the window [t0,t2) fetched in *)
(* turn from the same history, without a limit, from an exchange that      *)
(* answers every request with its klines (a fixed upstream history).       *)

Window(from, to) == [start_time |-> from, end_time |-> to, limit |-> None]

SplitTimes == Datetimes

SplitCalls ==
    {<<Window(t[1], t[2]), Window(t[2], t[3]), Window(t[1], t[3])>> :
        t \in {d \in SplitTimes \X SplitTimes \X SplitTimes :
                  d[1] <= d[2] /\ d[2] <= d[3]}}

InitSplit == FetchInit(SplitCalls)

NextSplit ==
    \/ Call
    \/ SendRequest
    \/ ReturnAfterLoop
    \/ ReceivePage

SpecSplit == InitSplit /\ [][NextSplit]_vars

---------------------------------------------------------------------------
(* The indicator engine applied to every short series of closes. *)

RECURSIVE SeqsUpTo(_, _)
SeqsUpTo(S, n) ==
    IF n = 0 THEN {<<>>}
    ELSE LET shorter == SeqsUpTo(S, n - 1)
         IN  shorter \cup {Append(q, x) : q \in shorter, x \in S}

Periods == 0..MaxPeriod

InitInd ==
    /\ history = {}
    /\ queue = <<>>
    /\ pc = "idle"
    /\ context = [start_time |-> 0, end_time |-> 0, limit |-> None]
    /\ start_time = 0
    /\ end_time = 0
    /\ prices = <<>>
    /\ next_start_time = 0
    /\ requests = <<>>
    /\ results = <<>>
    /\ values \in {[i \in 1..Len(q) |-> Num(q[i])] :
                     q \in SeqsUpTo(ClosePrices, MaxLen)}
    /\ indicator = NoIndicator

NextInd ==
    \/ \E period \in Periods : CallEMA(period)
    \/ \E period \in Periods : CallRSI(period)
    \/ \E fast_period \in Periods, slow_period \in Periods,
          signal_period \in Periods :
          CallMACD(fast_period, slow_period, signal_period)

SpecInd == InitInd /\ [][NextInd]_vars

---------------------------------------------------------------------------
(* Properties.  A finished fetch call is an entry of `results`; the        *)
(* indicator engine's last call is `indicator`, applied to `values`.       *)

Finished == {results[i] : i \in 1..Len(results)}

StrictlyIncreasing(series) ==
    \A i \in 1..(Len(series) - 1) : series[i].timestamp < series[i + 1].timestamp

Failures == {"network_error", "http_error"}

\* Every request of the call was answered with the exchange's own klines.
ServedFaithfully(call) ==
    \A j \in 1..Len(call.requests) : call.requests[j].reply = "page"

\* The bars of the history inside the half-open window of a context.
BarsInWindow(ctx) ==
    {k \in history :
        /\ ctx.start_time <= milliseconds_to_datatime(Kline(k).openTime)
        /\ milliseconds_to_datatime(Kline(k).openTime) < ctx.end_time}

\* C1: a fetch with a non-null limit N returns at most N bars, whatever the
\* exchange serves (pages of at most N records).
C1_AtMostLimit ==
    \A call \in Finished :
        (call.outcome = "returned" /\ call.context.limit # None)
            => Len(call.series) <= call.context.limit[1]

\* C2: a fetch with start_time > end_time fails (InvalidRequest) and issues
\* no upstream request; it does not return a series.
C2_InvalidRequestRejected ==
    \A call \in Finished :
        call.context.start_time > call.context.end_time
            => (call.outcome = "raised" /\ call.requests = <<>>)

\* C3: EMA, RSI and MACD fail with InsufficientHistory, and return no series,
\* when the series is shorter than the period (for MACD: than the fast or the
\* slow period).
C3_InsufficientHistoryRejected ==
    /\ (/\ indicator.name \in {"exponential_moving_average",
                               "relative_strength_index"}
        /\ Len(values) < indicator.arguments[1])
           => indicator.outcome = "InsufficientHistory"
    /\ (/\ indicator.name = "moving_average_convergence_divergence"
        /\ \/ Len(values) < indicator.arguments[1]
           \/ Len(values) < indicator.arguments[2])
           => indicator.outcome = "InsufficientHistory"

\* C4: on every return path a returned series is strictly increasing by
\* timestamp, whatever order the exchange delivers; a series with a duplicate
\* timestamp is never returned.
C4_ReturnedSeriesStrictlyIncreasing ==
    \A call \in Finished :
        call.outcome = "returned" => StrictlyIncreasing(call.series)

\* C5: fetch is all-or-nothing: when the request for a page fails (network
\* error, timeout, non-success response) the call ends in an error at once,
\* returns none of the accumulated bars, and requests nothing after it.
C5_AllOrNothing ==
    \A call \in Finished :
        \A j \in 1..Len(call.requests) :
            call.requests[j].reply \in Failures
                => /\ call.outcome = "raised"
                   /\ call.series = <<>>
                   /\ j = Len(call.requests)

\* C6: a fetch whose window [start_time, end_time) holds strictly fewer bars
\* than one page issues exactly one upstream request and returns, also when
\* the last bar closes at end_time - 1.
C6_ShortWindowOneRequest ==
    \A call \in Finished :
        (/\ call.outcome = "returned"
         /\ ServedFaithfully(call)
         /\ call.context.start_time <= call.context.end_time
         /\ Cardinality(BarsInWindow(call.context))
                < PageSize(call.context.limit))
            => Len(call.requests) = 1

\* The three calls of SpecSplit have all returned, each served faithfully.
SplitDone ==
    /\ Len(results) = 3
    /\ \A i \in 1..3 : /\ results[i].outcome = "returned"
                       /\ ServedFaithfully(results[i])
                       /\ results[i].context.limit = None
    /\ results[1].context.end_time = results[2].context.start_time
    /\ results[3].context.start_time = results[1].context.start_time
    /\ results[3].context.end_time = results[2].context.end_time

\* C7: for a fixed history and t0 <= t1 <= t2 (no limit), the fetches over
\* [t0,t1) and [t1,t2), concatenated and sorted by timestamp, are the series
\* of one fetch over [t0,t2): nothing lost at t1, nothing twice, ascending.
C7_SplitFetchEqualsWholeFetch ==
    SplitDone =>
        /\ sorted(results[1].series \o results[2].series) = results[3].series
        /\ StrictlyIncreasing(results[1].series \o results[2].series)
        /\ {results[3].series[i].timestamp : i \in 1..Len(results[3].series)}
             = {milliseconds_to_datatime(Kline(k).openTime) :
                    k \in BarsInWindow(results[3].context)}

\* C7's case: the second window opens exactly on a bar, both halves hold
\* bars, and the whole window took several pages.
C7_Witness ==
    /\ SplitDone
    /\ results[1].series # <<>>
    /\ results[2].series # <<>>
    /\ results[2].series[1].timestamp = results[2].context.start_time
    /\ Len(results[3].requests) >= 3

RECURSIVE Total(_, _)
Total(seq, n) == IF n = 0 THEN Num(0) ELSE RAdd(Total(seq, n - 1), seq[n])

\* C8: for 1 <= p <= len(S), EMA(S, p) has len(S) entries, entries before
\* index p-1 are undefined, entry p-1 is the average of the first p closes,
\* and every later entry is alpha*close[i] + (1-alpha)*EMA[i-1] with
\* alpha = 2/(p+1).  (Indices here are 1-based: entry p is Python's p-1.)
C8_EmaIsReferenceSeries ==
    (/\ indicator.name = "exponential_moving_average"
     /\ 1 <= indicator.arguments[1]
     /\ indicator.arguments[1] <= Len(values))
        => LET p == indicator.arguments[1]
               ema == indicator.result
               alpha == Rat(2, p + 1)
           IN  /\ indicator.outcome = "returned"
               /\ Len(ema) = Len(values)
               /\ \A i \in 1..(p - 1) : ema[i] = None
               /\ ema[p] = Some(RDiv(Total(values, p), Num(p)))
               /\ \A i \in (p + 1)..Len(values) :
                     ema[i] = Some(RAdd(RMul(alpha, values[i]),
                                        RMul(RSub(Num(1), alpha),
                                             ema[i - 1][1])))

\* C8's example: closes [10, 11, 12, 13] and p = 3 give
\* [undefined, undefined, 11, 12].
C8_Witness ==
    /\ values = <<Num(10), Num(11), Num(12), Num(13)>>
    /\ indicator.name = "exponential_moving_average"
    /\ indicator.arguments = <<3>>
    /\ indicator.result = <<None, None, Some(Num(11)), Some(Num(12))>>

\* C9: for len(S) >= p (len(S) = p included), RSI(S, p) has exactly len(S)
\* entries, the first p undefined and every later one defined.
C9_RsiAlignedWithSeries ==
    (/\ indicator.name = "relative_strength_index"
     /\ 1 <= indicator.arguments[1]
     /\ Len(values) >= indicator.arguments[1])
        => /\ indicator.outcome = "returned"
           /\ Len(indicator.result) = Len(values)
           /\ \A i \in 1..Len(indicator.result) :
                 (indicator.result[i] = None) <=> (i <= indicator.arguments[1])

\* C10: for periods fast, slow, signal each <= len(S), the MACD line, the
\* signal line and the histogram all have len(S) entries, and the histogram
\* is defined exactly where both lines are, where it is their difference.
C10_MacdAligned ==
    (/\ indicator.name = "moving_average_convergence_divergence"
     /\ \A a \in 1..3 : /\ 1 <= indicator.arguments[a]
                        /\ indicator.arguments[a] <= Len(values))
        => /\ indicator.outcome = "returned"
           /\ LET line == indicator.result[1]
                  signal == indicator.result[2]
                  histogram == indicator.result[3]
              IN  /\ Len(line) = Len(values)
                  /\ Len(signal) = Len(values)
                  /\ Len(histogram) = Len(values)
                  /\ \A i \in 1..Len(values) :
                        IF line[i] # None /\ signal[i] # None
                        THEN histogram[i] = Some(RSub(line[i][1], signal[i][1]))
                        ELSE histogram[i] = None

\* C10's case: the MACD line has fewer defined entries than the signal
\* period, and the histogram still has a defined entry.
C10_Witness ==
    /\ indicator.name = "moving_average_convergence_divergence"
    /\ indicator.outcome = "returned"
    /\ \A a \in 1..3 : /\ 1 <= indicator.arguments[a]
                       /\ indicator.arguments[a] <= Len(values)
    /\ Len(Compact(indicator.result[1])) < indicator.arguments[3]
    /\ \E i \in 1..Len(values) : indicator.result[3][i] # None
    /\ \E i \in 1..Len(values) : indicator.result[3][i] = None

\* The loss of close j against close j-1 (1-based, j >= 2).
LossAt(j) ==
    IF RLeq(values[j - 1], values[j]) THEN Num(0)
    ELSE RSub(values[j - 1], values[j])

RECURSIVE LossesUpTo(_)
LossesUpTo(j) == IF j < 2 THEN Num(0) ELSE RAdd(LossesUpTo(j - 1), LossAt(j))

\* Wilder's average loss at close i (1-based, i >= p + 1).
RECURSIVE AverageLossAt(_, _)
AverageLossAt(i, p) ==
    IF i = p + 1 THEN RDiv(LossesUpTo(p + 1), Num(p))
    ELSE RDiv(RAdd(RMul(AverageLossAt(i - 1, p), Num(p - 1)), LossAt(i)),
              Num(p))

RsiCallWithHistory ==
    /\ indicator.name = "relative_strength_index"
    /\ 1 <= indicator.arguments[1]
    /\ Len(values) > indicator.arguments[1]
    /\ \A i \in 1..Len(values) : RLeq(Num(0), values[i])

\* C11: for non-negative closes and len(S) > p >= 1, every defined RSI value
\* (the first one and each smoothed one) lies in [0, 100]; it is 100 whenever
\* the current average loss is zero; and the first defined value is exactly
\* 100 when the first p+1 closes are strictly increasing.
C11_RsiBounded ==
    RsiCallWithHistory =>
        LET p == indicator.arguments[1]
            rsi == indicator.result
        IN  /\ indicator.outcome = "returned"
            /\ \A i \in 1..Len(rsi) :
                  rsi[i] # None => /\ RLeq(Num(0), rsi[i][1])
                                   /\ RLeq(rsi[i][1], Num(100))
            /\ \A i \in (p + 1)..Len(values) :
                  AverageLossAt(i, p) = Num(0) => rsi[i] = Some(Num(100))
            /\ (\A j \in 2..(p + 1) :
                   ~RLeq(values[j], values[j - 1]))
                  => rsi[p + 1] = Some(Num(100))

\* C11's case: the first p+1 closes rise, so the first value is 100, and a
\* later smoothed value lies strictly between 0 and 100.
C11_Witness ==
    /\ RsiCallWithHistory
    /\ indicator.outcome = "returned"
    /\ \A j \in 2..(indicator.arguments[1] + 1) :
          ~RLeq(values[j], values[j - 1])
    /\ indicator.result[indicator.arguments[1] + 1] = Some(Num(100))
    /\ \E i \in (indicator.arguments[1] + 2)..Len(indicator.result) :
          /\ ~RLeq(indicator.result[i][1], Num(0))
          /\ ~RLeq(Num(100), indicator.result[i][1])

\* The request logs: of the running call and of every finished one.
Logs == {requests} \cup {results[i].requests : i \in 1..Len(results)}

LastClose(request) == request.contents[Len(request.contents)].closeTime

\* C12's assumption on the exchange: every record of every page opens at or
\* after the requested startTime and closes at or after its open time.
RecordsWithinRequest(log) ==
    \A j \in 1..Len(log) : \A n \in 1..Len(log[j].contents) :
        /\ log[j].contents[n].openTime >= log[j].parameters.startTime
        /\ log[j].contents[n].closeTime >= log[j].contents[n].openTime

\* Every page is in ascending order of open time.
PagesAscending(log) ==
    \A j \in 1..Len(log) : \A n \in 1..(Len(log[j].contents) - 1) :
        log[j].contents[n].openTime < log[j].contents[n + 1].openTime

\* Each further request follows a non-empty page and starts one past the
\* close time of that page's last record.
CursorFollowsLastClose(log) ==
    \A j \in 1..(Len(log) - 1) :
        /\ log[j].contents # <<>>
        /\ log[j + 1].parameters.startTime = LastClose(log[j]) + 1

CursorIncreases(log) ==
    \A j \in 1..(Len(log) - 1) :
        log[j].parameters.startTime < log[j + 1].parameters.startTime

NoBarTwiceAcrossPages(log) ==
    \A j, k \in 1..Len(log) :
        j # k => \A n \in 1..Len(log[j].contents),
                    o \in 1..Len(log[k].contents) :
                    log[j].contents[n].openTime # log[k].contents[o].openTime

\* A call that returned after the loop (not from inside a page) saw an empty
\* page or a cursor past end_time; and no call takes more pages than the
\* exchange holds bars, plus one.
LoopEnds ==
    /\ \A log \in Logs : Len(log) <= Cardinality(history) + 1
    /\ \A call \in Finished :
          (/\ call.outcome = "returned"
           /\ call.requests # <<>>
           /\ \/ call.context.limit = None
              \/ Len(call.series) <= call.context.limit[1])
             => LET last == call.requests[Len(call.requests)]
                IN  \/ last.contents = <<>>
                    \/ LastClose(last) + 1
                         > datatime_to_milliseconds(call.context.end_time)

CursorAdvances ==
    /\ \A log \in Logs : CursorFollowsLastClose(log) /\ CursorIncreases(log)
    /\ (pc = "loop" /\ requests # <<>>)
          => /\ requests[Len(requests)].contents # <<>>
             /\ next_start_time = LastClose(requests[Len(requests)]) + 1
             /\ next_start_time
                  > requests[Len(requests)].parameters.startTime

\* C12 as stated: with an exchange that returns only records opening at or
\* after startTime and closing at or after their open time, the cursor is the
\* last record's close time plus one after each non-empty page, it strictly
\* increases, no bar is appended twice across pages, and the loop ends after
\* finitely many pages.
C12_CursorProgressNoDuplicates ==
    (\A log \in Logs : RecordsWithinRequest(log))
        => /\ CursorAdvances
           /\ LoopEnds
           /\ \A log \in Logs : NoBarTwiceAcrossPages(log)

\* C12 amended: the same, with "no bar is appended twice across pages" only
\* for calls whose pages each came in ascending order of open time.
C12_CursorProgress ==
    (\A log \in Logs : RecordsWithinRequest(log))
        => /\ CursorAdvances
           /\ LoopEnds
           /\ \A log \in Logs :
                 PagesAscending(log) => NoBarTwiceAcrossPages(log)

\* C12's case: a finished call of several non-empty ascending pages, one of
\* them shorter than a page, that ended on an empty page.
C12_Witness ==
    \E call \in Finished :
        /\ call.outcome = "returned"
        /\ Len(call.requests) >= 3
        /\ PagesAscending(call.requests)
        /\ call.requests[1].contents # <<>>
        /\ Len(call.requests[2].contents) \in
               1..(PageSize(call.context.limit) - 1)
        /\ call.requests[Len(call.requests)].contents = <<>>
        /\ \A j \in 1..Len(call.requests) : call.requests[j].reply = "page"

\* m + 1, the 1-based index at which the MACD line is first defined.
MacdStart ==
    IF indicator.arguments[1] < indicator.arguments[2]
    THEN indicator.arguments[2] ELSE indicator.arguments[1]

MacdCallWithSignalHistory ==
    /\ indicator.name = "moving_average_convergence_divergence"
    /\ \A a \in 1..3 : 1 <= indicator.arguments[a]
    /\ Len(values) >= (MacdStart - 1) + indicator.arguments[3]

\* The MACD values at 1-based indices from..to, summed.
RECURSIVE LineTotal(_, _, _)
LineTotal(line, from, to) ==
    IF to < from THEN Num(0)
    ELSE RAdd(LineTotal(line, from, to - 1), line[to][1])

\* C13: the MACD line is first defined at index m = max(fast, slow) - 1; the
\* signal line is undefined before index m + signal - 1 and defined from it on
\* (when len(S) >= m + signal); its first value is the average of the MACD
\* values at m .. m + signal - 1 and each later value at index i smooths the
\* MACD value of the same index i.  (Indices here are 1-based: m is MacdStart.)
C13_SignalAlignedWithMacd ==
    /\ (/\ indicator.name = "moving_average_convergence_divergence"
        /\ \A a \in 1..3 : 1 <= indicator.arguments[a]
        /\ Len(values) >= MacdStart
        /\ indicator.outcome = "returned")
          => \A i \in 1..Len(values) :
                (indicator.result[1][i] = None) <=> (i < MacdStart)
    /\ MacdCallWithSignalHistory =>
        LET g == indicator.arguments[3]
            line == indicator.result[1]
            signal == indicator.result[2]
            first == MacdStart + g - 1
            alpha == Rat(2, g + 1)
        IN  /\ indicator.outcome = "returned"
            /\ Len(line) = Len(values)
            /\ Len(signal) = Len(values)
            /\ \A i \in 1..Len(values) : (line[i] = None) <=> (i < MacdStart)
            /\ \A i \in 1..Len(values) : (signal[i] = None) <=> (i < first)
            /\ signal[first] =
                  Some(RDiv(LineTotal(line, MacdStart, first), Num(g)))
            /\ \A i \in (first + 1)..Len(values) :
                  signal[i] = Some(RAdd(RMul(alpha, line[i][1]),
                                        RMul(RSub(Num(1), alpha),
                                             signal[i - 1][1])))

\* C13's case: different fast and slow periods, a signal period above 1, and
\* a series long enough for the signal line to take a smoothing step.
C13_Witness ==
    /\ MacdCallWithSignalHistory
    /\ indicator.outcome = "returned"
    /\ indicator.arguments[1] > indicator.arguments[2]
    /\ indicator.arguments[3] > 1
    /\ Len(values) > (MacdStart - 1) + indicator.arguments[3]
    /\ indicator.result[2][Len(values)] # indicator.result[2][Len(values) - 1]

\* C14: every upstream request covers a non-empty window, startTime <=
\* endTime, for every context with start_time <= end_time, start_time =
\* end_time and a cursor that has reached end_time included.
C14_RequestWindowNotInverted ==
    /\ \A j \in 1..Len(requests) :
          context.start_time <= context.end_time
             => requests[j].parameters.startTime
                   <= requests[j].parameters.endTime
    /\ \A call \in Finished : \A j \in 1..Len(call.requests) :
          call.context.start_time <= call.context.end_time
             => call.requests[j].parameters.startTime
                   <= call.requests[j].parameters.endTime

=============================================================================
